---- MODULE Spec2Model ----
(***************************************************************************)
(* A model of src/Inventory.py: the Product record, the InventoryManager   *)
(* and the Streamlit script that drives them (one script run per user      *)
(* interaction, the manager kept in st.session_state across runs).         *)
(*                                                                         *)
(* Numbers.  A Python number is a record [t, v]: t is its type ("int" or   *)
(* "float") and v its value in hundredths (2.50 is v = 250), the           *)
(* resolution of the price widget.  IEEE rounding of floats is not         *)
(* modelled.  Text is a sequence of code points, compared as Python        *)
(* compares str.  None is the empty sequence and a present value x is      *)
(* <<x>>.                                                                  *)
(***************************************************************************)
EXTENDS Integers, Sequences, FiniteSets, TLC

\* ------------------------------------------------------------------------
\* Bounds of the model
\* ------------------------------------------------------------------------

\* The largest quantity entered in the form or passed to the constructor.
MaxQuantity == 3

\* ------------------------------------------------------------------------
\* Python values
\* ------------------------------------------------------------------------

\* Hundredths per unit: the price widget's format="%.2f", min_value=0.01.
Scale == 100

None == <<>>

Some(x) == <<x>>

PyInt(n) == [t |-> "int", v |-> n * Scale]

PyFloat(hundredths) == [t |-> "float", v |-> hundredths]

\* float(x): the same value, as a float.
FloatOf(x) == [t |-> "float", v |-> x.v]

\* int(x): an int stays; a float is truncated towards zero.
IntOf(x) ==
  [t |-> "int",
   v |-> IF x.v >= 0 THEN (x.v \div Scale) * Scale
                     ELSE -(((-x.v) \div Scale) * Scale)]

\* a * b: float when either operand is.
PyMul(a, b) ==
  [t |-> IF a.t = "float" \/ b.t = "float" THEN "float" ELSE "int",
   v |-> (a.v * b.v) \div Scale]

\* a + b
PyAdd(a, b) ==
  [t |-> IF a.t = "float" \/ b.t = "float" THEN "float" ELSE "int",
   v |-> a.v + b.v]

\* Text: "" , "Ap", "Apple", "Banana" as code points.
Empty == <<>>

Ap == <<65, 112>>

Apple == <<65, 112, 112, 108, 101>>

Banana == <<66, 97, 110, 97, 110, 97>>

\* a < b on str: lexicographic by code point, a proper prefix first.
RECURSIVE StrLess(_, _)
StrLess(a, b) ==
  IF b = <<>> THEN FALSE
  ELSE IF a = <<>> THEN TRUE
  ELSE IF a[1] # b[1] THEN a[1] < b[1]
  ELSE StrLess(Tail(a), Tail(b))

\* ------------------------------------------------------------------------
\* class Product
\* ------------------------------------------------------------------------

Raise(exc, msg) == [raised |-> TRUE, exc |-> exc, msg |-> msg]

Return(obj) == [raised |-> FALSE, obj |-> obj]

\* Product with the validation moved after the coercion.
Product_CoerceFirst(name, price, quantity) ==
  IF name = Empty
    THEN Raise("ValueError", "Product name cannot be empty.")
  ELSE IF FloatOf(price).v < 0 \/ IntOf(quantity).v < 0
    THEN Raise("ValueError", "Price and quantity must be non-negative.")
  ELSE Return([name |-> name,
               price |-> FloatOf(price),
               quantity |-> IntOf(quantity)])

\* Product with the price coerced by int() instead of float().
Product_IntPrice(name, price, quantity) ==
  IF name = Empty
    THEN Raise("ValueError", "Product name cannot be empty.")
  ELSE IF price.v < 0 \/ quantity.v < 0
    THEN Raise("ValueError", "Price and quantity must be non-negative.")
  ELSE Return([name |-> name,
               price |-> IntOf(price),
               quantity |-> IntOf(quantity)])

\* Product(name, price, quantity): the dataclass __init__ followed by
\* __post_init__, which validates the values as passed and then coerces.
Product(name, price, quantity) ==
  IF name = Empty
    THEN Raise("ValueError", "Product name cannot be empty.")
  ELSE IF price.v < 0 \/ quantity.v < 0
    THEN Raise("ValueError", "Price and quantity must be non-negative.")
  ELSE Return([name |-> name,
               price |-> FloatOf(price),
               quantity |-> IntOf(quantity)])

\* calculate_value that keeps its result in self.price.
calculate_value_Mutating(self) ==
  [self |-> [self EXCEPT !.price = PyMul(self.price, self.quantity)],
   ret |-> PyMul(self.price, self.quantity)]

\* self.calculate_value(): the record after the call and the value returned.
calculate_value(self) ==
  [self |-> self, ret |-> PyMul(self.price, self.quantity)]

\* ------------------------------------------------------------------------
\* class InventoryManager
\* ------------------------------------------------------------------------
\* _inventory is a dict: a sequence of [key, value] entries in insertion
\* order, with at most one entry per key.

\* InventoryManager(): the empty dict.
NewInventory == <<>>

DictHas(d, k) == \E i \in DOMAIN d : d[i].key = k

\* d[k] = v : replaces the value in place, or appends a new entry.
DictSet(d, k, v) ==
  IF DictHas(d, k)
    THEN [i \in DOMAIN d |->
            IF d[i].key = k THEN [key |-> k, value |-> v] ELSE d[i]]
    ELSE Append(d, [key |-> k, value |-> v])

\* d.get(k)
DictGet(d, k) ==
  IF DictHas(d, k)
    THEN Some(d[CHOOSE i \in DOMAIN d : d[i].key = k].value)
    ELSE None

\* d.values(), in insertion order.
DictValues(d) == [i \in DOMAIN d |-> d[i].value]

\* add_or_update_product that appends a new entry whatever the keys.
add_or_update_product_Append(inv, product) ==
  Append(inv, [key |-> product.name, value |-> product])

\* add_or_update_product that keeps the record of a name already present.
add_or_update_product_KeepOld(inv, product) ==
  IF DictHas(inv, product.name) THEN inv
  ELSE Append(inv, [key |-> product.name, value |-> product])

\* add_or_update_product that rebinds _inventory to a new dict.
add_or_update_product_Reset(inv, product) ==
  <<[key |-> product.name, value |-> product]>>

add_or_update_product(inv, product) == DictSet(inv, product.name, product)

get_product(inv, product_name) == DictGet(inv, product_name)

\* The dict after calculate_value() has been called on each stored record:
\* the records are the objects the method is called on.
AfterCalls(inv) ==
  IF inv = <<>> THEN inv
  ELSE [i \in DOMAIN inv |->
          [key |-> inv[i].key, value |-> calculate_value(inv[i].value).self]]

\* total_value = 0.0, then += product.calculate_value() over the values.
RECURSIVE SumValues(_, _)
SumValues(products, total_value) ==
  IF products = <<>> THEN total_value
  ELSE SumValues(Tail(products),
                 PyAdd(total_value, calculate_value(Head(products)).ret))

RECURSIVE SumPrices(_, _)
SumPrices(products, total_value) ==
  IF products = <<>> THEN total_value
  ELSE SumPrices(Tail(products), PyAdd(total_value, Head(products).price))

\* calculate_total_inventory_value that adds up the prices.
calculate_total_inventory_value_Prices(inv) ==
  [inv |-> AfterCalls(inv),
   ret |-> IF inv = <<>> THEN PyFloat(0)
           ELSE SumPrices(DictValues(inv), PyFloat(0))]

\* inv: the dict after the call; ret: the total returned.
calculate_total_inventory_value(inv) ==
  [inv |-> AfterCalls(inv),
   ret |-> IF inv = <<>> THEN PyFloat(0)
           ELSE SumValues(DictValues(inv), PyFloat(0))]

\* One dict of the data list.
Row(product) ==
  [ProductName |-> product.name,
   Price |-> product.price,
   Quantity |-> product.quantity,
   StockValue |-> calculate_value(product).ret]

RECURSIVE InsertRow(_, _)
InsertRow(sorted, r) ==
  IF sorted = <<>> THEN <<r>>
  ELSE IF StrLess(r.ProductName, Head(sorted).ProductName)
    THEN <<r>> \o sorted
  ELSE <<Head(sorted)>> \o InsertRow(Tail(sorted), r)

\* The frame left in insertion order.
sort_values_Unsorted(rows) == rows

\* df.sort_values(by="Product Name").reset_index(drop=True)
RECURSIVE sort_values(_)
sort_values(rows) ==
  IF rows = <<>> THEN <<>>
  ELSE InsertRow(sort_values(SubSeq(rows, 1, Len(rows) - 1)), rows[Len(rows)])

\* inv: the dict after the call; df: the rows of the DataFrame returned
\* (no rows: the empty frame with the four columns).
get_inventory_dataframe(inv) ==
  [inv |-> AfterCalls(inv),
   df |-> IF inv = <<>> THEN <<>>
          ELSE sort_values([i \in DOMAIN inv |-> Row(inv[i].value)])]

\* ------------------------------------------------------------------------
\* The Streamlit script
\* ------------------------------------------------------------------------

\* st.text_input("Product Name")
FormNames == {Empty, Ap, Apple, Banana}

\* st.number_input("Price ($)", min_value=0.01, format="%.2f"): a float.
FormPrices == {PyFloat(200), PyFloat(500)}

\* st.number_input("Quantity", min_value=0, step=1): an int.
FormQuantities == {PyInt(q) : q \in 0..MaxQuantity}

\* f"${x:,.2f}": whole dollars and two digits of cents.
Format2f(x) == [dollars |-> x.v \div Scale, cents |-> x.v % Scale]

\* A handler that stores what was entered before it validates.
SubmitHandler_UpsertFirst(inv, name, price, quantity) ==
  LET entered == [name |-> name, price |-> FloatOf(price),
                  quantity |-> IntOf(quantity)]
      r == Product(name, price, quantity)
  IN  [inventory |-> DictSet(inv, name, entered),
       message |-> IF name = Empty THEN "error_name"
                   ELSE IF r.raised THEN "error_value" ELSE "success",
       upsert |-> Some(entered)]

\* The body of "if submitted:".  inventory: the dict afterwards; message:
\* what st.success / st.error show ("uncaught": an exception left the
\* handler); upsert: the argument of add_or_update_product when called.
SubmitHandler(inv, name, price, quantity) ==
  IF name = Empty
    THEN [inventory |-> inv, message |-> "error_name", upsert |-> None]
  ELSE LET r == Product(name, price, quantity)
       IN  IF ~r.raised
             THEN [inventory |-> add_or_update_product(inv, r.obj),
                   message |-> "success", upsert |-> Some(r.obj)]
           ELSE IF r.exc = "ValueError"
             THEN [inventory |-> inv, message |-> "error_value",
                   upsert |-> None]
           ELSE [inventory |-> inv, message |-> "uncaught", upsert |-> None]

\* The "with col2:" block.  inv: the dict afterwards; view: what is on
\* screen (the st.info line, the st.dataframe rows, the st.metric value).
Display(inv) ==
  LET frame == get_inventory_dataframe(inv)
      total == calculate_total_inventory_value(frame.inv)
  IN  IF frame.df = <<>>
        THEN [inv |-> frame.inv,
              view |-> [info |-> TRUE, table |-> None, metric |-> None]]
        ELSE [inv |-> total.inv,
              view |-> [info |-> FALSE,
                        table |-> Some(frame.df),
                        metric |-> Some(Format2f(total.ret))]]

\* Nothing of the "with col2:" block was reached.
NotRendered == [info |-> FALSE, table |-> None, metric |-> None]

\* A script whose display block runs before its form block.
ScriptRun_DisplayFirst(inv, sub, name, price, quantity) ==
  LET d == Display(inv)
      h == IF sub THEN SubmitHandler(d.inv, name, price, quantity)
           ELSE [inventory |-> d.inv, message |-> "none", upsert |-> None]
  IN  [inventory |-> h.inventory, message |-> h.message,
       upsert |-> h.upsert, view |-> d.view]

\* One run of the script on the session's manager: the form block, then the
\* display block (skipped when an exception left the form block).
ScriptRun(inv, sub, name, price, quantity) ==
  LET h == IF sub THEN SubmitHandler(inv, name, price, quantity)
           ELSE [inventory |-> inv, message |-> "none", upsert |-> None]
      d == Display(h.inventory)
  IN  IF h.message = "uncaught"
        THEN [inventory |-> h.inventory, message |-> h.message,
              upsert |-> h.upsert, view |-> NotRendered]
        ELSE [inventory |-> d.inv, message |-> h.message,
              upsert |-> h.upsert, view |-> d.view]

\* ------------------------------------------------------------------------
\* State
\* ------------------------------------------------------------------------
\* inventory   st.session_state.inventory_manager._inventory
\* submitted   the form's submit flag in the last run
\* message     what the last run's form block showed
\* view        what the last run's display block showed
\* call        history: the last run's add_or_update_product call, if any
\*             (its argument, and whether the name was already a key)
\* latest      history: per name, the argument of the last
\*             add_or_update_product call for it
\* args, result, value
\*             a direct use of Product: the constructor's arguments, what
\*             the construction gave, and what calculate_value() returned
VARIABLES inventory, submitted, message, view, call, latest,
          args, result, value

appVars == <<inventory, submitted, message, view, call, latest>>

unitVars == <<args, result, value>>

vars == <<inventory, submitted, message, view, call, latest,
          args, result, value>>

NoArgs == [name |-> Empty, price |-> PyInt(0), quantity |-> PyInt(0)]

\* The session after the script's first run: the manager was created and
\* nothing was submitted.
AppInit ==
  /\ inventory = NewInventory
  /\ submitted = FALSE
  /\ message = "none"
  /\ view = Display(NewInventory).view
  /\ call = None
  /\ latest = [n \in FormNames |-> None]

Init ==
  /\ AppInit
  /\ args = NoArgs
  /\ result = None
  /\ value = None

\* A rerun of the script with nothing submitted.
Rerun ==
  \E r \in {ScriptRun(inventory, FALSE, Empty, PyFloat(1), PyInt(0))} :
      /\ inventory' = r.inventory
      /\ submitted' = FALSE
      /\ message' = r.message
      /\ view' = r.view
      /\ call' = None
      /\ latest' = latest
      /\ UNCHANGED unitVars

\* The user fills the form and presses Submit.
Submit(name, price, quantity) ==
  \E r \in {ScriptRun(inventory, TRUE, name, price, quantity)} :
      /\ inventory' = r.inventory
      /\ submitted' = TRUE
      /\ message' = r.message
      /\ view' = r.view
      /\ call' = IF r.upsert = None THEN None
                 ELSE Some([product |-> r.upsert[1],
                            existed |-> DictHas(inventory, r.upsert[1].name)])
      /\ latest' = IF r.upsert = None THEN latest
                   ELSE [latest EXCEPT ![r.upsert[1].name] = r.upsert]
      /\ UNCHANGED unitVars

SubmitAny ==
  \E name \in FormNames, price \in FormPrices, quantity \in FormQuantities :
    Submit(name, price, quantity)

Next == Rerun \/ SubmitAny

Spec == Init /\ [][Next]_vars

\* ------------------------------------------------------------------------
\* Product used directly
\* ------------------------------------------------------------------------

\* Arguments a caller can pass: negative, zero, fractional and whole.
RawPrices ==
  {PyInt(-1), PyFloat(-1), PyInt(0), PyFloat(1), PyFloat(250), PyInt(2),
   PyInt(5)}

RawQuantities ==
  {PyInt(-1), PyFloat(-50), PyFloat(50), PyFloat(250)}
    \cup {PyInt(q) : q \in 0..MaxQuantity}

ProductInit ==
  /\ AppInit
  /\ args \in [name : FormNames, price : RawPrices, quantity : RawQuantities]
  /\ result = None
  /\ value = None

\* Product(name, price, quantity) is evaluated.
Construct ==
  /\ result = None
  /\ result' = Some(Product(args.name, args.price, args.quantity))
  /\ UNCHANGED <<args, value>>
  /\ UNCHANGED appVars

\* calculate_value() is called on the record constructed.
CalcValue ==
  /\ result # None
  /\ ~result[1].raised
  /\ value = None
  /\ LET c == calculate_value(result[1].obj)
     IN  /\ result' = Some(Return(c.self))
         /\ value' = Some(c.ret)
  /\ UNCHANGED args
  /\ UNCHANGED appVars

ProductNext == Construct \/ CalcValue

ProductSpec == ProductInit /\ [][ProductNext]_vars

\* ------------------------------------------------------------------------
\* Properties
\* ------------------------------------------------------------------------

Keys(inv) == {inv[i].key : i \in DOMAIN inv}

Upserted == {n \in FormNames : latest[n] # None}

\* price * quantity of a record, in hundredths.
StockCents(p) == (p.price.v * p.quantity.v) \div Scale

RECURSIVE SumLatest(_)
SumLatest(S) ==
  IF S = {} THEN 0
  ELSE LET n == CHOOSE x \in S : TRUE
       IN  StockCents(latest[n][1]) + SumLatest(S \ {n})

\* C1: a submission that fails (an empty name, or Product raising the
\* validation error) leaves the collection as it was: add_or_update_product
\* is not reached, the error stays inside the handler and the display block
\* runs on the unchanged collection.
C1_FailedSubmitKeepsCollection ==
  [][(submitted' /\ message' # "success")
       => /\ message' \in {"error_name", "error_value"}
          /\ call' = None
          /\ latest' = latest
          /\ inventory' = inventory
          /\ view' = Display(inventory).view]_vars

\* A submission with an empty name failed on a collection of two records.
C1_Witness ==
  /\ submitted
  /\ message = "error_name"
  /\ Len(inventory) = 2

\* C2: Product(name, price, quantity) fails with the validation error exactly
\* when name is empty or price < 0 or quantity < 0, on the values as passed.
C2_ConstructionFailsIffInvalid ==
  result # None
    => /\ result[1].raised
            <=> (args.name = Empty \/ args.price.v < 0 \/ args.quantity.v < 0)
       /\ result[1].raised => result[1].exc = "ValueError"

\* Construction failed for a quantity of -0.5, which int() would make 0.
C2_Witness ==
  /\ result # None
  /\ result[1].raised
  /\ args.name # Empty
  /\ args.price.v >= 0
  /\ args.quantity = PyFloat(-50)

\* C3: for a constructed Product with a whole quantity, calculate_value()
\* returns price * quantity of the values passed to the constructor; it is
\* defined on every valid record and leaves the record as constructed.
C3_ValueIsPriceTimesQuantity ==
  /\ (result # None /\ ~result[1].raised)
       => calculate_value(result[1].obj).ret.v >= 0
  /\ value # None
       => /\ args.quantity.v % Scale = 0
               => value[1].v = (args.price.v * args.quantity.v) \div Scale
          /\ result = Some(Product(args.name, args.price, args.quantity))

\* calculate_value() returned 7.50 for a price of 2.50 and a quantity of 3.
C3_Witness ==
  /\ value # None
  /\ args.price = PyFloat(250)
  /\ args.quantity = PyInt(3)
  /\ value[1].v = 750

\* C4: the collection holds at most one record per name: its size is the
\* number of distinct names upserted so far; an upsert of a present name
\* keeps the size and an upsert of a new name adds exactly one.
C4_OneRecordPerName ==
  /\ [](/\ Len(inventory) = Cardinality(Upserted)
        /\ \A i, j \in DOMAIN inventory :
             inventory[i].key = inventory[j].key => i = j)
  /\ [][call' # None
          => Len(inventory')
               = Len(inventory) + (IF call'[1].existed THEN 0 ELSE 1)]_vars

\* The only name of the collection was upserted again.
C4_Witness ==
  /\ call # None
  /\ call[1].existed
  /\ Len(inventory) = 1

\* C5: get_product(name) is the record last upserted under name, and None
\* for a name never upserted.
C5_GetReturnsLatest ==
  \A n \in FormNames : get_product(inventory, n) = latest[n]

\* A name was upserted again beside another one, and a third never was.
C5_Witness ==
  /\ call # None
  /\ call[1].existed
  /\ Len(inventory) = 2
  /\ get_product(inventory, call[1].product.name) = Some(call[1].product)
  /\ get_product(inventory, Ap) = None

\* C6: calculate_total_inventory_value() is the sum of price * quantity over
\* the records stored, the latest one per name; 0 for the empty collection
\* and 11 for the records (price 2, quantity 3) and (price 5, quantity 1).
C6_TotalIsSumOfValues ==
  LET total == calculate_total_inventory_value(inventory).ret
  IN  /\ total.v = SumLatest(Upserted)
      /\ inventory = <<>> => total.v = 0
      /\ (/\ Len(inventory) = 2
          /\ {<<inventory[i].value.price.v, inventory[i].value.quantity.v>> :
                i \in DOMAIN inventory} = {<<200, 300>>, <<500, 100>>})
           => total.v = 1100

\* The records (2, 3) and (5, 1) are stored, one of them by a second upsert
\* of its name.
C6_Witness ==
  /\ call # None
  /\ call[1].existed
  /\ Len(inventory) = 2
  /\ {<<inventory[i].value.price.v, inventory[i].value.quantity.v>> :
        i \in DOMAIN inventory} = {<<200, 300>>, <<500, 100>>}
  /\ calculate_total_inventory_value(inventory).ret.v = 1100

ExpectedRow(p) ==
  [ProductName |-> p.name, Price |-> p.price, Quantity |-> p.quantity,
   StockValue |-> [t |-> "float", v |-> StockCents(p)]]

\* C7: get_inventory_dataframe() has exactly one row (name, price, quantity,
\* price * quantity) per stored record, in ascending order of name whatever
\* the insertion order; a run with no upsert in between shows the same rows.
C7_RowsSortedByName ==
  /\ [](LET rows == get_inventory_dataframe(inventory).df
        IN  /\ Len(rows) = Len(inventory)
            /\ \A i \in DOMAIN inventory :
                 Cardinality({j \in DOMAIN rows :
                                rows[j] = ExpectedRow(inventory[i].value)}) = 1
            /\ \A j \in 1..(Len(rows) - 1) :
                 StrLess(rows[j].ProductName, rows[j + 1].ProductName))
  /\ [][call' = None => view'.table = view.table]_vars

\* Inserted as Banana, Apple, Ap and shown as Ap, Apple, Banana.
C7_Witness ==
  /\ Len(inventory) = 3
  /\ inventory[1].key = Banana
  /\ inventory[2].key = Apple
  /\ inventory[3].key = Ap
  /\ view.table # None
  /\ [j \in 1..3 |-> view.table[1][j].ProductName] = <<Ap, Apple, Banana>>

\* C8 as stated: after every submission, whatever the collection, the view
\* shows the rows and the total, the total being that of the collection
\* shown.
C8_ViewAlwaysShowsRowsAndTotal ==
  submitted
    => /\ view.table # None
       /\ view.metric # None
       /\ view.table[1] = get_inventory_dataframe(inventory).df
       /\ view.metric[1]
            = Format2f(calculate_total_inventory_value(inventory).ret)

\* C8 amended: after every run on a non-empty collection the view shows
\* the rows sorted by name and the total of that same collection; on the
\* empty collection it shows the information line and neither of them.
C8_ViewShowsRowsAndTotalUnlessEmpty ==
  IF inventory = <<>>
    THEN view = [info |-> TRUE, table |-> None, metric |-> None]
    ELSE /\ ~view.info
         /\ view.table = Some(get_inventory_dataframe(inventory).df)
         /\ view.metric
              = Some(Format2f(calculate_total_inventory_value(inventory).ret))
         /\ view.metric[1].dollars * Scale + view.metric[1].cents
              = SumLatest(Upserted)

\* A successful submission made the collection's total 11.00.
C8_Witness ==
  /\ submitted
  /\ message = "success"
  /\ Len(inventory) = 2
  /\ view.metric = Some([dollars |-> 11, cents |-> 0])

\* C9: the collection starts empty; add_or_update_product(p) changes only
\* the entry of p.name, every other name keeps its record, and no name
\* leaves the collection.
C9_OnlyTheUpsertedNameChanges ==
  /\ inventory = <<>>
  /\ [][\A n \in FormNames :
          /\ get_product(inventory, n) # None
               => get_product(inventory', n) # None
          /\ (call' = None \/ call'[1].product.name # n)
               => get_product(inventory', n) = get_product(inventory, n)]_vars

\* A new name was added to a collection of two.
C9_Witness ==
  /\ call # None
  /\ ~call[1].existed
  /\ Len(inventory) = 3

\* C10: every stored record has a non-empty name, price >= 0 and
\* quantity >= 0 and is stored under its own name; a stored record changes
\* only by being replaced by an upsert of its name.
C10_StoredRecordsValidAndStable ==
  /\ [](\A i \in DOMAIN inventory :
          /\ inventory[i].key = inventory[i].value.name
          /\ inventory[i].value.name # Empty
          /\ inventory[i].value.price.v >= 0
          /\ inventory[i].value.quantity.v >= 0)
  /\ [][\A i \in DOMAIN inventory :
          /\ i \in DOMAIN inventory'
          /\ \/ inventory'[i] = inventory[i]
             \/ /\ call' # None
                /\ call'[1].product.name = inventory[i].key
                /\ inventory'[i].value = call'[1].product]_vars

\* A rerun with nothing submitted on a collection of three records.
C10_Witness ==
  /\ ~submitted
  /\ message = "none"
  /\ Len(inventory) = 3

====
